---- MODULE Spec2Model ----
(***************************************************************************)
(* Sequential playlist queue of AanyaaBot (src/main.py).                   *)
(*                                                                         *)
(* group_music_queue maps a chat id to a queue_data dictionary.  The       *)
(* dictionaries are objects: auto_play_sequence keeps a reference to the   *)
(* one it read at the head of its while loop, so the model keeps a heap qs *)
(* of queue_data objects and lets the map and the loops hold references.   *)
(*                                                                         *)
(* Everything runs on one asyncio event loop.  A coroutine runs without    *)
(* interruption from one await to the next, so each action below is the    *)
(* code between two awaits.  The Application is built with its defaults    *)
(* (line 915), which process one update at a time: a command handler never *)
(* overlaps another handler, but the auto_play_sequence tasks created with *)
(* asyncio.create_task run whenever a handler or another task is suspended *)
(* in an await.                                                            *)
(*                                                                         *)
(* update.message.reply_text talks to the network and may raise.  A        *)
(* notification is recorded when the code issues the call; the call then   *)
(* returns or raises when the coroutine is resumed.                        *)
(*                                                                         *)
(* A queue_data that neither the map, nor a running auto_play_sequence,    *)
(* nor the handler in flight refers to is garbage: no code can read or     *)
(* change it again.  The model clears such an object (and the counters     *)
(* kept about it) in the step that drops the last reference to it.         *)
(*                                                                         *)
(* Specifications.  Spec: one chat, any number of starts, short playlists. *)
(* FairSpec: Spec with the event loop's fairness.  LongSpec: one start of  *)
(* a long playlist.  TwoChatSpec: two chats, one start in each.            *)
(* StoreSpec: playlists are created in user_playlists by add_to_playlist   *)
(* and played from there.  CallerSpec: the commands of one chat come from  *)
(* two users.  TokenSpec: a first playlist from any short text of songs.   *)
(* LookupSpec: two users, playlists of two names, /play with queries.      *)
(* MessageSpec: handle_message on messages of a private chat and a group.  *)
(* PlaySpec: a playlist created from any text, played by /play or a message.*)
(* MemorySpec: the add_to_memory calls the message handlers end in, taken   *)
(* on their own, and /clear; the other specifications leave user_memory,   *)
(* which only the prompt of the language model reads, as it is.            *)
(***************************************************************************)
EXTENDS Integers, Sequences, FiniteSets, TLC

\* Bounds of the model.
MaxStates == 2
MaxItems == 2
MaxQueue == 6
MaxText == 5

\* Chat ids and the users who send commands.  The commands of Spec all come from one
\* chat and one user; the other chat and user act in the specifications further down.
Chats == {1, 2}
Users == {1, 2}
OneChat == {1}
OneUser == {1}
Ids == 1..MaxStates
NoState == 0

\* The end of the slice queue[current_index + 1:current_index + 4] of queue_command.
UpNextEnd == 4

\* The conversations add_to_memory keeps per user.
MemoryLimit == 10

\* The songs of the playlist handed to play_playlist_sequentially: n distinct names.
Playlist(n) == [i \in 1..n |-> 100 + i]

\* Song names as add_to_playlist compares them: strings of letters, each letter in
\* lower or in upper case.  Two spellings of one name.
Letter(ch, up) == [ch |-> ch, upper |-> up]
SongNames == {<<Letter("x", FALSE)>>, <<Letter("x", TRUE)>>}

\* A str in lower case from its characters, and the playlist name "chill".
Str(chars) == [i \in DOMAIN chars |-> Letter(chars[i], FALSE)]
Chill == Str(<<"c", "h", "i", "l", "l">>)

\* str.lower()
Lower(str) == [i \in DOMAIN str |-> [str[i] EXCEPT !.upper = FALSE]]

\* Python's None.
None == [none |-> TRUE]
PlaylistNames == {Chill}

\* The lists of songs a message can hand to add_to_playlist.
SongLists == UNION {[1..n -> SongNames] : n \in 1..MaxItems}

VARIABLES
    group_music_queue,  \* chat id -> reference to a queue_data object, NoState when absent
    qs,                 \* heap of queue_data objects, by reference
    loop,               \* auto_play_sequence tasks, by the queue_data their start installed
    h,                  \* the command handler in flight (suspended in an await), if any
    np,                 \* number of "now playing" notifications issued about each queue_data
    term,               \* closing notifications issued about each queue_data: 0, 1, 2 for more
    disturbed,          \* chat id -> a skip, a stop or a further start has acted on its queue
    user_playlists,     \* user id -> the user's playlists (name and songs), in creation order
    user_memory         \* user id -> the conversations kept about the user, oldest first

vars == <<group_music_queue, qs, loop, h, np, term, disturbed, user_playlists,
          user_memory>>

NoQueue == [chat |-> 0, queue |-> <<>>, current_song |-> 0, current_index |-> 0,
            requested_by |-> 0, auto_play |-> FALSE]
NoLoop == [pc |-> "none", chat |-> 0, queue_data |-> NoState]
Idle == [pc |-> "idle", chat |-> 0, id |-> NoState]

\* A finished auto_play_sequence.
Done(c) == [pc |-> "done", chat |-> c, queue_data |-> NoState]

\* An auto_play_sequence that ended in its except clause.
Failed(c) == [pc |-> "failed", chat |-> c, queue_data |-> NoState]

Allocated == {id \in Ids : qs[id].chat # 0}
NewId == Cardinality(Allocated) + 1

\* The text of a reply_text call: its kind, and the position, the song and the total
\* it names (0 where the text names none).  Positions are the code's current_index.
Reply(kind, index, song, total) ==
    [kind |-> kind, index |-> index, song |-> song, total |-> total]

\* The queue_data objects some reference reaches.
Live(m, lp, hh) ==
    ({m[c] : c \in Chats} \cup {lp[l].queue_data : l \in Ids} \cup {hh.id}) \ {NoState}

\* The next values of the map, the heap, the tasks, the handler and the counters,
\* with the garbage cleared.  The code of the queue never writes user_playlists.
Commit(m, q, lp, hh, n, t) ==
    LET live == Live(m, lp, hh)
    IN /\ user_playlists' = user_playlists
       /\ user_memory' = user_memory
       /\ group_music_queue' = m
       /\ loop' = lp
       /\ h' = hh
       /\ qs' = [id \in Ids |-> IF id \in live THEN q[id]
                                ELSE [NoQueue EXCEPT !.chat = q[id].chat]]
       /\ np' = [id \in Ids |-> IF id \in live THEN n[id] ELSE 0]
       /\ term' = [id \in Ids |-> IF id \in live THEN t[id] ELSE 0]

\* One more closing notification: none so far, one, more than one.
Counted(k) == IF k = 0 THEN 1 ELSE 2

\* The dictionary play_playlist_sequentially installs.
NewQueueState(c, u, songs) ==
    [chat |-> c, queue |-> songs, current_song |-> songs[1], current_index |-> 0,
     requested_by |-> u, auto_play |-> TRUE]

\* The increment lost: the position read is the position written back.
NextIndex_stuck(q) == q.current_index

\* queue_data['current_index'] += 1, in auto_play_sequence and in next_command.
NextIndex(q) == q.current_index + 1

\* The test one song early.
Exhausted_early(q, i) == i >= Len(q.queue) - 1

\* The "playlist finished" test of auto_play_sequence, after its increment to i.
Exhausted(q, i) == i >= Len(q.queue)

\* The test one song early.
IsLast_early(q) == q.current_index >= Len(q.queue) - 2

\* The "that was the last song" test of next_command.
IsLast(q) == q.current_index >= Len(q.queue) - 1

\* The list read one place too low.
SongAt_before(q, i) == q.queue[i]

\* queue_data['queue'][i] of a Python list, i counted from 0.
SongAt(q, i) == q.queue[i + 1]

\* Head of the while loop of auto_play_sequence, up to the await of asyncio.sleep:
\* the loop ends when the chat has no queue or the queue it reads is not on auto play.
LoopHead(c) ==
    IF group_music_queue[c] = NoState
        THEN Done(c)
    ELSE IF ~qs[group_music_queue[c]].auto_play
        THEN Done(c)
    ELSE [pc |-> "sleep", chat |-> c, queue_data |-> group_music_queue[c]]

\* A del that empties the whole map.
Del_all(c) == [x \in Chats |-> NoState]

\* del self.group_music_queue[chat_id], and the same under "if chat_id in".
Del(c) == [group_music_queue EXCEPT ![c] = NoState]

\* What play_playlist_sequentially replies for a playlist with these songs.
StartReply(songs) ==
    IF songs = <<>> THEN Reply("EmptyCollection", 0, 0, 0)
    ELSE Reply("NowPlaying", 0, songs[1], Len(songs))

\* What auto_play_sequence sends when loop l wakes from its sleep: nothing when the
\* chat has no queue, else what its own queue_data says after the increment.
WakeNote(l) ==
    LET q == qs[loop[l].queue_data]
        i == NextIndex(q)
    IN IF group_music_queue[loop[l].chat] = NoState THEN Reply("exit", 0, 0, 0)
       ELSE IF Exhausted(q, i) THEN Reply("Completed", i, 0, Len(q.queue))
       ELSE Reply("AutoNext", i, SongAt(q, i), Len(q.queue))

\* What next_command replies.
NextReply(c) ==
    LET q == qs[group_music_queue[c]]
        i == NextIndex(q)
    IN IF group_music_queue[c] = NoState THEN Reply("NoActiveQueue", 0, 0, 0)
       ELSE IF IsLast(q) THEN Reply("Finished", q.current_index, 0, 0)
       ELSE Reply("Skipped", i, SongAt(q, i), Len(q.queue))

\* The position itself, not the count of songs played.
PlayedSongs_index(q) == q.current_index

\* played_songs of stop_command.
PlayedSongs(q) == q.current_index + 1

\* stop_command without its test for an entry.
StopReply_blind(c) == [kind |-> "Stopped", played |-> 0, total |-> 0]

\* What stop_command replies: "Played: played_songs/total_songs".
StopReply(c) ==
    LET q == qs[group_music_queue[c]]
    IN IF group_music_queue[c] = NoState THEN Reply("NoActiveQueue", 0, 0, 0)
       ELSE [kind |-> "Stopped", played |-> PlayedSongs(q), total |-> Len(q.queue)]

\* a if a <= b, else b: where a Python slice stops.
Min(a, b) == IF a <= b THEN a ELSE b

\* The slice that runs one song further.
UpNext_longer(q) ==
    SubSeq(q.queue, q.current_index + 2, Min(q.current_index + UpNextEnd + 1, Len(q.queue)))

\* next_songs of queue_command: queue[current_index + 1:current_index + 4], a slice
\* of a list counted from 0 that leaves its end out and stops at the end of the list.
\* It is empty when current_index + 1 < total_songs fails ("This is the last song").
UpNext(q) ==
    SubSeq(q.queue, q.current_index + 2, Min(q.current_index + UpNextEnd, Len(q.queue)))

\* What queue_command replies: Now Playing, Progress, Requested by and Up Next.
QueueReply(c) ==
    LET q == qs[group_music_queue[c]]
    IN IF group_music_queue[c] = NoState THEN Reply("NoActiveQueue", 0, 0, 0)
       ELSE [kind |-> "Status", index |-> q.current_index, song |-> q.current_song,
             total |-> Len(q.queue), owner |-> q.requested_by, up_next |-> UpNext(q)]

Init ==
    /\ group_music_queue = [c \in Chats |-> NoState]
    /\ qs = [id \in Ids |-> NoQueue]
    /\ loop = [id \in Ids |-> NoLoop]
    /\ h = Idle
    /\ np = [id \in Ids |-> 0]
    /\ term = [id \in Ids |-> 0]
    /\ disturbed = [c \in Chats |-> FALSE]
    /\ user_playlists = [u \in Users |-> <<>>]
    /\ user_memory = [u \in Users |-> <<>>]

\* A refused start that retires the queue of the chat.
AfterRefusal_retired(c) == Del(c)

\* The map after play_playlist_sequentially has refused an empty playlist: the reply
\* is followed by return, nothing was assigned.
AfterRefusal(c) == group_music_queue

\* play_playlist_sequentially up to the await of its reply_text.  The reply to an
\* empty playlist is followed by return.
PlayPlaylistSequentially(c, u, songs) ==
    /\ h.pc = "idle"
    /\ IF StartReply(songs).kind = "EmptyCollection"
        THEN Commit(AfterRefusal(c), qs, loop, h, np, term) /\ UNCHANGED disturbed
        ELSE /\ NewId \in Ids
             /\ Commit([group_music_queue EXCEPT ![c] = NewId],
                       [qs EXCEPT ![NewId] = NewQueueState(c, u, songs)],
                       loop,
                       [pc |-> "startSend", chat |-> c, id |-> NewId],
                       [np EXCEPT ![NewId] = 1],
                       term)
             /\ disturbed' = [disturbed EXCEPT ![c] = @ \/ \E id \in Allocated : qs[id].chat = c]

\* play_playlist_sequentially after its reply_text: asyncio.create_task, unless the
\* reply raised.
StartReturn(ok) ==
    /\ h.pc = "startSend"
    /\ IF ok
        THEN Commit(group_music_queue, qs,
                    [loop EXCEPT ![h.id] = [pc |-> "new", chat |-> h.chat,
                                            queue_data |-> NoState]],
                    Idle, np, term)
        ELSE Commit(group_music_queue, qs, loop, Idle, np, term)
    /\ UNCHANGED disturbed

\* auto_play_sequence from its first step to the first asyncio.sleep.
LoopBegin(l) ==
    /\ loop[l].pc = "new"
    /\ Commit(group_music_queue, qs, [loop EXCEPT ![l] = LoopHead(loop[l].chat)],
              h, np, term)
    /\ UNCHANGED disturbed

\* auto_play_sequence from the end of asyncio.sleep to its next reply_text.
LoopWake(l) ==
    /\ loop[l].pc = "sleep"
    /\ LET c == loop[l].chat
           qd == loop[l].queue_data
           note == WakeNote(l)
       IN IF note.kind = "exit"
            THEN Commit(group_music_queue, qs, [loop EXCEPT ![l] = Done(c)],
                        h, np, term)
          ELSE IF note.kind = "Completed"
            THEN Commit(group_music_queue,
                        [qs EXCEPT ![qd].current_index = note.index],
                        [loop EXCEPT ![l].pc = "sendCompleted"],
                        h, np, [term EXCEPT ![qd] = Counted(@)])
          ELSE Commit(group_music_queue,
                      [qs EXCEPT ![qd].current_index = note.index,
                                 ![qd].current_song = note.song],
                      [loop EXCEPT ![l].pc = "sendNext"],
                      h, [np EXCEPT ![qd] = @ + 1], term)
    /\ UNCHANGED disturbed

\* The except clause without its cleanup.
LoopExcept_keep(l) ==
    Commit(group_music_queue, qs, [loop EXCEPT ![l] = Failed(loop[l].chat)], h, np, term)

\* The except clause of auto_play_sequence: the chat's entry is deleted if there is
\* one, and the coroutine ends.
LoopExcept(l) ==
    Commit(Del(loop[l].chat), qs, [loop EXCEPT ![l] = Failed(loop[l].chat)], h, np, term)

\* auto_play_sequence after the "Playlist Completed" reply: del and break.  The except
\* clause runs when the reply raised, and when the del raises KeyError because the
\* chat's entry was removed during the reply.
LoopCompletedReturn(l, ok) ==
    /\ loop[l].pc = "sendCompleted"
    /\ IF ok /\ group_music_queue[loop[l].chat] # NoState
        THEN Commit(Del(loop[l].chat), qs, [loop EXCEPT ![l] = Done(loop[l].chat)],
                    h, np, term)
        ELSE LoopExcept(l)
    /\ UNCHANGED disturbed

\* auto_play_sequence after the "Auto-Next" reply: back to the head of the loop, or
\* into the except clause when the reply raised.
LoopNextReturn(l, ok) ==
    /\ loop[l].pc = "sendNext"
    /\ IF ok
        THEN Commit(group_music_queue, qs,
                    [loop EXCEPT ![l] = LoopHead(loop[l].chat)], h, np, term)
        ELSE LoopExcept(l)
    /\ UNCHANGED disturbed

\* next_command.  Its replies "No playlist is currently playing" and "Skipped" are the
\* last statement of their branch, so the handler is over once they are issued; the
\* "Playlist Finished" reply is followed by the del and suspends the handler.
NextCommand(c) ==
    /\ h.pc = "idle"
    /\ LET qd == group_music_queue[c]
           reply == NextReply(c)
       IN IF reply.kind = "NoActiveQueue"
            THEN UNCHANGED vars
          ELSE IF reply.kind = "Finished"
            THEN /\ Commit(group_music_queue, qs, loop,
                           [pc |-> "nextFinishedSend", chat |-> c, id |-> qd],
                           np, [term EXCEPT ![qd] = Counted(@)])
                 /\ disturbed' = [disturbed EXCEPT ![c] = TRUE]
          ELSE /\ Commit(group_music_queue,
                         [qs EXCEPT ![qd].current_index = reply.index,
                                    ![qd].current_song = reply.song],
                         loop, h, [np EXCEPT ![qd] = @ + 1], term)
               /\ disturbed' = [disturbed EXCEPT ![c] = TRUE]

\* next_command after the "Playlist Finished" reply: del self.group_music_queue[chat_id].
\* The del is not reached when the reply raised; it raises KeyError, changing nothing,
\* when a loop removed the entry meanwhile.
NextFinishedReturn(ok) ==
    /\ h.pc = "nextFinishedSend"
    /\ IF ok
        THEN Commit(Del(h.chat), qs, loop, Idle, np, term)
        ELSE Commit(group_music_queue, qs, loop, Idle, np, term)
    /\ UNCHANGED disturbed

\* stop_command; the "Stopped" reply is its last statement.
StopCommand(c) ==
    /\ h.pc = "idle"
    /\ LET qd == group_music_queue[c]
       IN IF StopReply(c).kind = "NoActiveQueue"
            THEN UNCHANGED vars
          ELSE /\ Commit(Del(c), [qs EXCEPT ![qd].auto_play = FALSE], loop, h,
                         np, [term EXCEPT ![qd] = Counted(@)])
               /\ disturbed' = [disturbed EXCEPT ![c] = TRUE]

\* queue_command; it reads the queue and replies.
QueueCommand(c) ==
    /\ h.pc = "idle"
    /\ QueueReply(c).kind \in {"NoActiveQueue", "Status"}
    /\ UNCHANGED vars

Next ==
    \/ \E c \in OneChat, u \in OneUser, n \in 0..MaxItems :
            PlayPlaylistSequentially(c, u, Playlist(n))
    \/ \E ok \in BOOLEAN : StartReturn(ok)
    \/ \E l \in Ids : LoopBegin(l)
    \/ \E l \in Ids : LoopWake(l)
    \/ \E l \in Ids, ok \in BOOLEAN : LoopCompletedReturn(l, ok)
    \/ \E l \in Ids, ok \in BOOLEAN : LoopNextReturn(l, ok)
    \/ \E c \in OneChat : NextCommand(c)
    \/ \E ok \in BOOLEAN : NextFinishedReturn(ok)
    \/ \E c \in OneChat : StopCommand(c)
    \/ \E c \in OneChat : QueueCommand(c)

Spec == Init /\ [][Next]_vars

\* The place of playlist name among the playlists of user u, 0 when u has none of
\* that name.
PlaylistIndex(u, name) ==
    IF \E i \in DOMAIN user_playlists[u] : user_playlists[u][i].name = name
        THEN CHOOSE i \in DOMAIN user_playlists[u] : user_playlists[u][i].name = name
        ELSE 0

\* user_playlists[user_id][playlist_name]['songs'], empty when there is no such
\* playlist yet.
SongsOf(u, name) ==
    IF PlaylistIndex(u, name) = 0 THEN <<>>
    ELSE user_playlists[u][PlaylistIndex(u, name)].songs

\* A test that finds no song in any list.
InList_never(song, list) == FALSE

\* The song is one of the list: Python's "in" on a list of str, which compares the
\* strings as they are spelled.
InList(song, list) == \E i \in DOMAIN list : list[i] = song

\* The for loop of add_to_playlist: each song is appended unless it is in the list.
RECURSIVE AppendNew(_, _)
AppendNew(list, songs) ==
    IF songs = <<>> THEN list
    ELSE AppendNew(IF InList(Head(songs), list) THEN list ELSE Append(list, Head(songs)),
                   Tail(songs))

\* The queues if the list of a queue were the list of the playlist it was started
\* from.
QueuesAfterAppend_shared(u, list) ==
    [id \in Ids |-> IF qs[id].requested_by = u /\ qs[id].queue # <<>>
                        THEN [qs[id] EXCEPT !.queue = list]
                        ELSE qs[id]]

\* The queues after user u's playlist has become list: every queue holds
\* songs.copy(), a list of its own, so an append to the playlist reaches none.
QueuesAfterAppend(u, list) == qs

\* add_to_playlist, called by handle_message for a message that creates a playlist.
AddToPlaylist(u, name, songs) ==
    /\ h.pc = "idle"
    /\ LET i == PlaylistIndex(u, name)
           list == AppendNew(SongsOf(u, name), songs)
       IN /\ user_playlists' =
                [user_playlists EXCEPT ![u] =
                    IF i = 0 THEN Append(@, [name |-> name, songs |-> list])
                    ELSE [@ EXCEPT ![i].songs = list]]
          /\ qs' = QueuesAfterAppend(u, list)
    /\ UNCHANGED <<group_music_queue, loop, h, np, term, disturbed, user_memory>>

\* a in b, for two str: a is a substring of b.
IsIn(a, b) == \E k \in 0..(Len(b) - Len(a)) : SubSeq(b, k + 1, k + Len(a)) = a

\* The test of find_playlist_by_name and of find_song_in_user_playlists: either
\* string, in lower case, is in the other.
Matches(query, name) ==
    IsIn(Lower(query), Lower(name)) \/ IsIn(Lower(name), Lower(query))

\* get_user_playlists
GetUserPlaylists(u) == user_playlists[u]

\* A scan that keeps going and returns the last playlist that matches.
RECURSIVE FindPlaylistFrom_last(_, _, _)
FindPlaylistFrom_last(playlists, query, i) ==
    IF i > Len(playlists) THEN None
    ELSE LET later == FindPlaylistFrom_last(playlists, query, i + 1)
         IN IF later # None THEN later
            ELSE IF Matches(query, playlists[i].name)
                    THEN [name |-> playlists[i].name, data |-> playlists[i]]
                    ELSE None

\* The for loop of find_playlist_by_name from the i-th playlist on: the dict is
\* walked in insertion order and the first playlist that matches is returned.
RECURSIVE FindPlaylistFrom(_, _, _)
FindPlaylistFrom(playlists, query, i) ==
    IF i > Len(playlists) THEN None
    ELSE IF Matches(query, playlists[i].name)
            THEN [name |-> playlists[i].name, data |-> playlists[i]]
            ELSE FindPlaylistFrom(playlists, query, i + 1)

FindPlaylistByName_last(playlists, query) == FindPlaylistFrom_last(playlists, query, 1)

\* find_playlist_by_name
FindPlaylistByName(playlists, query) == FindPlaylistFrom(playlists, query, 1)

\* The playlists of every user, one user after the other.
RECURSIVE PlaylistsOfAll(_)
PlaylistsOfAll(u) ==
    IF u \notin Users THEN <<>> ELSE user_playlists[u] \o PlaylistsOfAll(u + 1)
PlaylistsToSearch_all(u) == PlaylistsOfAll(1)

\* The playlists find_song_in_user_playlists walks: self.user_playlists[user_id].
PlaylistsToSearch(u) == user_playlists[u]

\* The two for loops of find_song_in_user_playlists, from song j of playlist i on.
RECURSIVE FindSongFrom(_, _, _, _)
FindSongFrom(playlists, song_name, i, j) ==
    IF i > Len(playlists) THEN None
    ELSE IF j > Len(playlists[i].songs) THEN FindSongFrom(playlists, song_name, i + 1, 1)
    ELSE IF Matches(song_name, playlists[i].songs[j])
            THEN [song_name |-> playlists[i].songs[j],
                  playlist_name |-> playlists[i].name]
            ELSE FindSongFrom(playlists, song_name, i, j + 1)

\* find_song_in_user_playlists
FindSongInUserPlaylists(u, song_name) ==
    FindSongFrom(PlaylistsToSearch(u), song_name, 1, 1)

\* The reply of play_command when the query names no playlist of the user: the song
\* found in the user's playlists, or the query itself as a general song.
PlayReply(u, query) ==
    LET found_song == FindSongInUserPlaylists(u, query)
    IN IF found_song # None THEN [kind |-> "PlaylistSong", found |-> found_song]
       ELSE [kind |-> "GeneralSong", found |-> None]

\* play_command in a group: the playlist found among the user's own is played;
\* without one the command ends in a single-song reply.
PlayCommand(c, u, query) ==
    LET found_playlist == FindPlaylistByName(GetUserPlaylists(u), query)
    IN IF found_playlist = None
        THEN /\ h.pc = "idle"
             /\ PlayReply(u, query).kind \in {"PlaylistSong", "GeneralSong"}
             /\ UNCHANGED vars
        ELSE PlayPlaylistSequentially(c, u, found_playlist.data.songs)

\* No playlist has been started in chat c so far.
NeverStarted(c) == \A id \in Allocated : qs[id].chat # c

\* A handler that serves the requester of the queue only.
MayControl_owner(c, u) ==
    IF group_music_queue[c] = NoState THEN TRUE
    ELSE qs[group_music_queue[c]].requested_by = u

\* Whom next_command and stop_command serve: they read the user of the update for
\* the greeting of their "No playlist is currently playing" reply and never compare
\* it with the user_id or requested_by of the queue.
MayControl(c, u) == TRUE

\* The replies of next_command and stop_command to user u.
NextReplyTo(c, u) ==
    IF group_music_queue[c] = NoState THEN [kind |-> "NoActiveQueue", user_name |-> u]
    ELSE NextReply(c)
StopReplyTo(c, u) ==
    IF group_music_queue[c] = NoState THEN [kind |-> "NoActiveQueue", user_name |-> u]
    ELSE StopReply(c)

\* next_command and stop_command for an update sent by user u.
NextCommandBy(c, u) == MayControl(c, u) /\ NextCommand(c)
StopCommandBy(c, u) == MayControl(c, u) /\ StopCommand(c)

\* One chat and one start, with the commands sent by either user.
CallerNext ==
    \/ \E c \in OneChat, u \in Users, n \in 0..MaxItems :
            NeverStarted(c) /\ PlayPlaylistSequentially(c, u, Playlist(n))
    \/ \E ok \in BOOLEAN : StartReturn(ok)
    \/ \E l \in Ids : LoopBegin(l)
    \/ \E l \in Ids : LoopWake(l)
    \/ \E l \in Ids, ok \in BOOLEAN : LoopCompletedReturn(l, ok)
    \/ \E l \in Ids, ok \in BOOLEAN : LoopNextReturn(l, ok)
    \/ \E c \in OneChat, u \in Users : NextCommandBy(c, u)
    \/ \E ok \in BOOLEAN : NextFinishedReturn(ok)
    \/ \E c \in OneChat, u \in Users : StopCommandBy(c, u)
    \/ \E c \in OneChat : QueueCommand(c)

CallerSpec == Init /\ [][CallerNext]_vars

\* One chat, either user, one start, and playlists of up to MaxQueue songs: long
\* enough for queue_command to have more songs ahead than it lists.
LongNext ==
    \/ \E c \in OneChat, u \in Users, n \in 0..MaxQueue :
            NeverStarted(c) /\ PlayPlaylistSequentially(c, u, Playlist(n))
    \/ \E ok \in BOOLEAN : StartReturn(ok)
    \/ \E l \in Ids : LoopBegin(l)
    \/ \E l \in Ids : LoopWake(l)
    \/ \E l \in Ids, ok \in BOOLEAN : LoopCompletedReturn(l, ok)
    \/ \E l \in Ids, ok \in BOOLEAN : LoopNextReturn(l, ok)
    \/ \E c \in OneChat : NextCommand(c)
    \/ \E ok \in BOOLEAN : NextFinishedReturn(ok)
    \/ \E c \in OneChat : StopCommand(c)
    \/ \E c \in OneChat : QueueCommand(c)

LongSpec == Init /\ [][LongNext]_vars

\* Both chats, each with one start: the queues, loops and commands of two chats in
\* every interleaving.
TwoChatNext ==
    \/ \E c \in Chats, u \in OneUser, n \in 0..MaxItems :
            NeverStarted(c) /\ PlayPlaylistSequentially(c, u, Playlist(n))
    \/ \E ok \in BOOLEAN : StartReturn(ok)
    \/ \E l \in Ids : LoopBegin(l)
    \/ \E l \in Ids : LoopWake(l)
    \/ \E l \in Ids, ok \in BOOLEAN : LoopCompletedReturn(l, ok)
    \/ \E l \in Ids, ok \in BOOLEAN : LoopNextReturn(l, ok)
    \/ \E c \in Chats : NextCommand(c)
    \/ \E ok \in BOOLEAN : NextFinishedReturn(ok)
    \/ \E c \in Chats : StopCommand(c)
    \/ \E c \in Chats : QueueCommand(c)

TwoChatSpec == Init /\ [][TwoChatNext]_vars

\* Playlists are created and extended by one user and played from user_playlists,
\* once in each chat.
StoreNext ==
    \/ \E u \in OneUser, name \in PlaylistNames, songs \in SongLists :
            AddToPlaylist(u, name, songs)
    \/ \E c \in Chats, u \in OneUser, name \in PlaylistNames :
            NeverStarted(c) /\ PlayCommand(c, u, name)
    \/ \E ok \in BOOLEAN : StartReturn(ok)
    \/ \E l \in Ids : LoopBegin(l)
    \/ \E l \in Ids : LoopWake(l)
    \/ \E l \in Ids, ok \in BOOLEAN : LoopCompletedReturn(l, ok)
    \/ \E l \in Ids, ok \in BOOLEAN : LoopNextReturn(l, ok)
    \/ \E c \in Chats : NextCommand(c)
    \/ \E ok \in BOOLEAN : NextFinishedReturn(ok)
    \/ \E c \in Chats : StopCommand(c)
    \/ \E c \in Chats : QueueCommand(c)

StoreSpec == Init /\ [][StoreNext]_vars

(***************************************************************************)
(* Text.  A str is a sequence of letters (Letter); a character that is not a *)
(* letter of the alphabet has upper = FALSE, and the bullet character is     *)
(* written "bullet".                                                         *)
(***************************************************************************)

\* The characters str.strip() and \s take for white space.
Whitespace == {" ", "\n"}
Digits == {"0", "1", "2", "3", "4", "5", "6", "7", "8", "9"}

\* Delimiters without the comma.
Delimiters_nocomma == <<"\n", ";", "|", "-", "bullet", "*">>

\* The delimiters of extract_songs_from_text, in the order it splits by them.
Delimiters == <<"\n", ",", ";", "|", "-", "bullet", "*">>

\* str.lstrip(), str.rstrip() and str.strip()
RECURSIVE LStrip(_)
LStrip(str) ==
    IF str # <<>> /\ str[1].ch \in Whitespace THEN LStrip(Tail(str)) ELSE str
RECURSIVE RStrip(_)
RStrip(str) ==
    IF str # <<>> /\ str[Len(str)].ch \in Whitespace
        THEN RStrip(SubSeq(str, 1, Len(str) - 1))
        ELSE str
\* A strip of the left end only.
Strip_left(str) == LStrip(str)
Strip(str) == RStrip(LStrip(str))

\* str.split(delimiter): the pieces between the occurrences of the delimiter.
RECURSIVE Split(_, _)
Split(str, delimiter) ==
    IF \A i \in DOMAIN str : str[i].ch # delimiter THEN <<str>>
    ELSE LET i == CHOOSE k \in DOMAIN str :
                    /\ str[k].ch = delimiter
                    /\ \A j \in 1..(k - 1) : str[j].ch # delimiter
         IN <<SubSeq(str, 1, i - 1)>> \o Split(SubSeq(str, i + 1, Len(str)), delimiter)

\* [s.strip() for s in song.split(delimiter) if s.strip()]
StrippedPieces(song, delimiter) ==
    LET pieces == Split(song, delimiter)
    IN SelectSeq([i \in DOMAIN pieces |-> Strip(pieces[i])], LAMBDA piece : piece # <<>>)

\* The inner loop of the splitting: temp.extend(...) for every song.
RECURSIVE SplitEach(_, _)
SplitEach(songs, delimiter) ==
    IF songs = <<>> THEN <<>>
    ELSE StrippedPieces(Head(songs), delimiter) \o SplitEach(Tail(songs), delimiter)

\* The outer loop of the splitting, from the k-th delimiter on: temp is the list
\* the pieces of every song are collected in, and it becomes songs for the next
\* delimiter.
RECURSIVE SplitBy(_, _)
SplitBy(songs, k) ==
    IF k > Len(Delimiters) THEN songs
    ELSE CHOOSE result \in {SplitBy(temp, k + 1) :
                                temp \in {SplitEach(songs, Delimiters[k])}} : TRUE

\* The number of digits str starts with.
RECURSIVE LeadingDigits(_)
LeadingDigits(str) ==
    IF str # <<>> /\ str[1].ch \in Digits THEN 1 + LeadingDigits(Tail(str)) ELSE 0

\* re.sub(r'^\d+[\.\)]\s*', '', song)
RemoveNumbering(song) ==
    LET n == LeadingDigits(song)
    IN IF n >= 1 /\ Len(song) > n /\ song[n + 1].ch \in {".", ")"}
        THEN LStrip(SubSeq(song, n + 2, Len(song)))
        ELSE song

\* re.sub(r'^[-bullet*]\s*', '', song)
RemoveBullet(song) ==
    IF song # <<>> /\ song[1].ch \in {"-", "bullet", "*"} THEN LStrip(Tail(song))
    ELSE song

\* extract_songs_from_text
ExtractSongsFromText(text) ==
    LET songs == SplitBy(<<text>>, 1)
        cleaned == [i \in DOMAIN songs |-> Strip(RemoveBullet(RemoveNumbering(songs[i])))]
    IN SelectSeq(cleaned, LAMBDA song : Len(song) > 2)

\* Lines 755-760 without the test of songs: the playlist is created whatever
\* extract_songs_from_text returns.
CreatePlaylist_always(u, playlist_data) ==
    AddToPlaylist(u, playlist_data.playlist_name,
                  ExtractSongsFromText(playlist_data.songs_text))

\* Lines 755-758 of handle_message: the songs of a detected creation are extracted
\* and, when there are any, added to the playlist; without songs the message goes on
\* to the language model and the store is left alone.
CreatePlaylist(u, playlist_data) ==
    LET songs == ExtractSongsFromText(playlist_data.songs_text)
    IN IF songs = <<>> THEN h.pc = "idle" /\ UNCHANGED vars
       ELSE AddToPlaylist(u, playlist_data.playlist_name, songs)

\* The texts of songs a creation message can carry: numbering, a letter, two
\* delimiters and white space, up to MaxText characters.
TextChars == {"1", ".", "a", ",", "-", " "}
Texts == UNION {[1..n -> {Letter(ch, FALSE) : ch \in TextChars}] : n \in 0..MaxText}

\* The first playlist of one user, created from any of the texts.
TokenNext ==
    \E u \in OneUser, text \in Texts :
        /\ user_playlists[u] = <<>>
        /\ CreatePlaylist(u, [playlist_name |-> Chill, songs_text |-> text])

TokenSpec == Init /\ [][TokenNext]_vars

\* Two users with playlists of two names, one name inside the other, and two songs;
\* the queries differ from the names and the songs in case, contain them, are
\* contained in them or have nothing in common with them.
LookupNames == {Str(<<"a">>), Str(<<"a", "b">>)}
LookupSongs == {Str(<<"x">>), <<Letter("y", TRUE)>>}
Queries == {<<>>, <<Letter("a", TRUE)>>, Str(<<"b">>), Str(<<"a", "b", "c">>),
            <<Letter("x", TRUE)>>, Str(<<"y">>), Str(<<"y", "x">>), Str(<<"z">>)}

LookupNext ==
    \/ \E u \in Users, name \in LookupNames, song \in LookupSongs :
            AddToPlaylist(u, name, <<song>>)
    \/ \E c \in OneChat, u \in Users, query \in Queries :
            NeverStarted(c) /\ PlayCommand(c, u, query)
    \/ \E ok \in BOOLEAN : StartReturn(ok)
    \/ \E l \in Ids : LoopBegin(l)
    \/ \E l \in Ids : LoopWake(l)
    \/ \E l \in Ids, ok \in BOOLEAN : LoopCompletedReturn(l, ok)
    \/ \E l \in Ids, ok \in BOOLEAN : LoopNextReturn(l, ok)

LookupSpec == Init /\ [][LookupNext]_vars

(***************************************************************************)
(* Messages.  re.search with the patterns of detect_playlist_creation and    *)
(* detect_playlist_request: a pattern is a sequence of literals, greedy      *)
(* repetitions of a character class and alternatives; a match is tried from  *)
(* every start, leftmost first, and a repetition gives characters back one   *)
(* at a time when the rest of the pattern fails.                            *)
(***************************************************************************)

Alpha == {"a", "b", "c", "d", "e", "f", "g", "h", "i", "j", "k", "l", "m",
          "n", "o", "p", "q", "r", "s", "t", "u", "v", "w", "x", "y", "z"}

\* [a-zA-Z\s], [:\s] and [^\n]
InClass(class, l) ==
    CASE class = "name" -> l.ch \in Alpha \cup Whitespace
      [] class = "colon" -> l.ch \in {":"} \cup Whitespace
      [] class = "line" -> l.ch # "\n"

Lit(text) ==
    [kind |-> "lit", text |-> text, class |-> "", min |-> 0, group |-> FALSE,
     options |-> <<>>]
Rep(class, min, group) ==
    [kind |-> "rep", text |-> <<>>, class |-> class, min |-> min, group |-> group,
     options |-> <<>>]
Alt(options) ==
    [kind |-> "alt", text |-> <<>>, class |-> "", min |-> 0, group |-> TRUE,
     options |-> options]

\* str has text at offset i.
HasAt(str, i, text) ==
    i + Len(text) <= Len(str) /\ SubSeq(str, i + 1, i + Len(text)) = text

\* The number of characters of the class str has in a row from offset i.
RECURSIVE Run(_, _, _)
Run(str, i, class) ==
    IF i < Len(str) /\ InClass(class, str[i + 1]) THEN 1 + Run(str, i + 1, class) ELSE 0

\* The first of two results that is not None; the second is not looked at when the
\* first is one.
OrElse(first, second) == IF first # None THEN first ELSE second

\* A match of the pattern from its k-th element on at offset i of str: the offset
\* where it ends and the groups captured, or None.
RECURSIVE MatchFrom(_, _, _, _, _)
RECURSIVE TryCount(_, _, _, _, _, _)
RECURSIVE TryOption(_, _, _, _, _, _)
MatchFrom(pattern, k, str, i, groups) ==
    IF k > Len(pattern) THEN [end |-> i, groups |-> groups]
    ELSE CASE pattern[k].kind = "lit" ->
                IF HasAt(str, i, pattern[k].text)
                    THEN MatchFrom(pattern, k + 1, str, i + Len(pattern[k].text), groups)
                    ELSE None
           [] pattern[k].kind = "rep" ->
                TryCount(pattern, k, str, i, Run(str, i, pattern[k].class), groups)
           [] pattern[k].kind = "alt" ->
                TryOption(pattern, k, str, i, 1, groups)

\* The repetition takes n characters, then one fewer, down to its minimum.
TryCount(pattern, k, str, i, n, groups) ==
    IF n < pattern[k].min THEN None
    ELSE OrElse(MatchFrom(pattern, k + 1, str, i + n,
                          IF pattern[k].group
                              THEN Append(groups, SubSeq(str, i + 1, i + n))
                              ELSE groups),
                TryCount(pattern, k, str, i, n - 1, groups))

\* The alternatives in the order the pattern lists them.
TryOption(pattern, k, str, i, o, groups) ==
    IF o > Len(pattern[k].options) THEN None
    ELSE OrElse(IF HasAt(str, i, pattern[k].options[o])
                    THEN MatchFrom(pattern, k + 1, str, i + Len(pattern[k].options[o]),
                                   Append(groups, pattern[k].options[o]))
                    ELSE None,
                TryOption(pattern, k, str, i, o + 1, groups))

\* re.search: the match at the leftmost offset that has one.
RECURSIVE SearchFrom(_, _, _)
SearchFrom(pattern, str, start) ==
    IF start > Len(str) THEN None
    ELSE OrElse(MatchFrom(pattern, 1, str, start, <<>>),
                SearchFrom(pattern, str, start + 1))
Search(pattern, str) == SearchFrom(pattern, str, 0)

\* [:\s]*([^\n]+), the end of every creation pattern.
SongsPart == <<Rep("colon", 0, FALSE), Rep("line", 1, TRUE)>>

\* playlist_patterns of detect_playlist_creation
PlaylistPatterns ==
    <<<<Lit(Str(<<"c", "r", "e", "a", "t", "e", " ", "p", "l", "a", "y", "l", "i", "s", "t">>))>> \o SongsPart,
      <<Lit(Str(<<"m", "y", " ">>)), Rep("name", 1, TRUE), Lit(Str(<<" ", "p", "l", "a", "y", "l", "i", "s", "t">>))>> \o SongsPart,
      <<Rep("name", 1, TRUE), Lit(Str(<<" ", "m", "o", "o", "d", " ", "s", "o", "n", "g", "s">>))>> \o SongsPart,
      <<Lit(Str(<<"p", "l", "a", "y", "l", "i", "s", "t", " ", "n", "a", "m", "e">>))>> \o SongsPart>>

\* mood_patterns of detect_playlist_creation
MoodPatterns ==
    <<<<Lit(Str(<<"w", "h", "e", "n", " ", "i", "'", "m", " ">>)),
        Alt(<<Str(<<"s", "a", "d">>),
            Str(<<"h", "a", "p", "p", "y">>),
            Str(<<"a", "n", "g", "r", "y">>),
            Str(<<"e", "x", "c", "i", "t", "e", "d">>),
            Str(<<"c", "h", "i", "l", "l">>),
            Str(<<"r", "o", "m", "a", "n", "t", "i", "c">>),
            Str(<<"e", "n", "e", "r", "g", "e", "t", "i", "c">>)>>)>> \o SongsPart,
      <<Lit(Str(<<"f", "o", "r", " ">>)),
        Alt(<<Str(<<"w", "o", "r", "k", "o", "u", "t">>),
            Str(<<"s", "t", "u", "d", "y">>),
            Str(<<"s", "l", "e", "e", "p">>),
            Str(<<"p", "a", "r", "t", "y">>),
            Str(<<"d", "r", "i", "v", "i", "n", "g">>),
            Str(<<"r", "e", "l", "a", "x", "a", "t", "i", "o", "n">>)>>)>> \o SongsPart>>

\* patterns of detect_playlist_request
RequestPatterns ==
    <<<<Lit(Str(<<"p", "l", "a", "y", " ", "m", "y", " ">>)), Rep("name", 1, TRUE), Lit(Str(<<" ", "p", "l", "a", "y", "l", "i", "s", "t">>))>>,
      <<Lit(Str(<<"p", "l", "a", "y", " ">>)), Rep("name", 1, TRUE), Lit(Str(<<" ", "p", "l", "a", "y", "l", "i", "s", "t">>))>>,
      <<Lit(Str(<<"s", "t", "a", "r", "t", " ", "m", "y", " ">>)), Rep("name", 1, TRUE), Lit(Str(<<" ", "s", "o", "n", "g", "s">>))>>,
      <<Lit(Str(<<"p", "u", "t", " ", "o", "n", " ", "m", "y", " ">>)), Rep("name", 1, TRUE), Lit(Str(<<" ", "m", "u", "s", "i", "c">>))>>,
      <<Lit(Str(<<"i", " ", "w", "a", "n", "t", " ", "t", "o", " ", "h", "e", "a", "r", " ", "m", "y", " ">>)), Rep("name", 1, TRUE), Lit(Str(<<" ", "p", "l", "a", "y", "l", "i", "s", "t">>))>>>>

\* str.title(): a letter after a letter in lower case, any other letter in upper.
Title(str) ==
    [i \in DOMAIN str |->
        Letter(str[i].ch, str[i].ch \in Alpha /\ (i = 1 \/ str[i - 1].ch \notin Alpha))]

\* What detect_playlist_creation returns for a match of a mood pattern.
MoodData(match) ==
    [playlist_name |-> Title(match.groups[1]) \o <<Letter(" ", FALSE), Letter("m", TRUE)>>
                            \o Str(<<"o", "o", "d">>),
     songs_text |-> Strip(match.groups[2])]

\* The second loop of detect_playlist_creation, from the k-th mood pattern on, and
\* its body for the result of re.search.
RECURSIVE MoodFrom(_, _)
MoodWith(message, k, match) ==
    IF match = None THEN MoodFrom(message, k + 1) ELSE MoodData(match)
MoodFrom(message, k) ==
    IF k > Len(MoodPatterns) THEN None
    ELSE MoodWith(message, k, Search(MoodPatterns[k], Lower(message)))

\* songs_text of a playlist pattern: the second group when the pattern has two,
\* else what follows the match in the message as it was sent.
SongsText(message, match) ==
    IF Len(match.groups) = 2 THEN Strip(match.groups[2])
    ELSE Strip(SubSeq(message, match.end + 1, Len(message)))

\* The first loop of detect_playlist_creation, from the k-th playlist pattern on,
\* and its body for the result of re.search.
RECURSIVE CreationFrom(_, _)
CreationWith(message, k, match) ==
    IF match = None THEN CreationFrom(message, k + 1)
    ELSE [playlist_name |-> Strip(match.groups[1]),
          songs_text |-> SongsText(message, match)]
CreationFrom(message, k) ==
    IF k > Len(PlaylistPatterns) THEN MoodFrom(message, 1)
    ELSE CreationWith(message, k, Search(PlaylistPatterns[k], Lower(message)))

\* detect_playlist_creation
DetectPlaylistCreation(message) == CreationFrom(message, 1)

\* The loop of detect_playlist_request, from the k-th pattern on, and its body for
\* the result of re.search.
RECURSIVE RequestFrom(_, _)
RequestWith(message, k, match) ==
    IF match = None THEN RequestFrom(message, k + 1)
    ELSE [query |-> Strip(match.groups[1])]
RequestFrom(message, k) ==
    IF k > Len(RequestPatterns) THEN None
    ELSE RequestWith(message, k, Search(RequestPatterns[k], Lower(message)))

\* detect_playlist_request: the name asked for, or None.
DetectPlaylistRequest(message) == RequestFrom(message, 1)

\* The phrases of check_special_responses.
SpecialPhrases ==
    {Str(<<"w", "h", "o", " ", "i", "s", " ", "y", "o", "u", "r", " ", "c", "r",
        "e", "a", "t", "o", "r">>),
    Str(<<"w", "h", "o", " ", "c", "r", "e", "a", "t", "e", "d", " ", "y", "o",
        "u">>),
    Str(<<"w", "h", "o", " ", "m", "a", "d", "e", " ", "y", "o", "u">>),
    Str(<<"y", "o", "u", "r", " ", "c", "r", "e", "a", "t", "o", "r">>),
    Str(<<"w", "h", "o", " ", "b", "u", "i", "l", "t", " ", "y", "o", "u">>),
    Str(<<"w", "h", "o", " ", "w", "r", "o", "t", "e", " ", "y", "o", "u", "r",
        " ", "c", "o", "d", "e">>),
    Str(<<"w", "h", "o", " ", "c", "o", "d", "e", "d", " ", "y", "o", "u">>),
    Str(<<"w", "h", "o", " ", "p", "r", "o", "g", "r", "a", "m", "m", "e", "d",
        " ", "y", "o", "u">>),
    Str(<<"w", "h", "o", " ", "d", "e", "v", "e", "l", "o", "p", "e", "d", " ",
        "y", "o", "u">>),
    Str(<<"g", "o", "o", "d", " ", "n", "i", "g", "h", "t">>),
    Str(<<"g", "o", "o", "d", "n", "i", "g", "h", "t">>),
    Str(<<"g", "n">>),
    Str(<<"s", "l", "e", "e", "p", " ", "w", "e", "l", "l">>),
    Str(<<"s", "u", "b", "h", " ", "r", "a", "t", "r", "i">>)}

\* generate_response: a special phrase has its fixed answer, any other message goes
\* to the language model.
GenerateReply(message) ==
    IF \E phrase \in SpecialPhrases : IsIn(phrase, Lower(message))
        THEN [kind |-> "Special", name |-> <<>>, items |-> <<>>]
        ELSE [kind |-> "LanguageModel", name |-> <<>>, items |-> <<>>]

\* The messages sent: two that create the playlist "chill", the second of them with
\* the words of a request; a request for it; a mood playlist and a request that its
\* name contains; a choice.
MyChill ==
    Str(<<"m", "y", " ", "c", "h", "i", "l", "l", " ", "p", "l", "a", "y", "l", "i",
    "s", "t", ":", " ", "s", "o", "n", "g", "1", ",", " ", "s", "o", "n", "g", "2">>)
PlayMyChillSongs ==
    Str(<<"p", "l", "a", "y", " ", "m", "y", " ", "c", "h", "i", "l", "l", " ", "p",
    "l", "a", "y", "l", "i", "s", "t", ":", " ", "s", "o", "n", "g", "1", ",", " ",
    "s", "o", "n", "g", "2">>)
PlayMyChill ==
    <<Letter("p", TRUE), Letter("l", FALSE), Letter("a", FALSE), Letter("y", FALSE),
    Letter(" ", FALSE), Letter("m", FALSE), Letter("y", FALSE), Letter(" ", FALSE),
    Letter("c", FALSE), Letter("h", FALSE), Letter("i", FALSE), Letter("l", FALSE),
    Letter("l", FALSE), Letter(" ", FALSE), Letter("p", FALSE), Letter("l", FALSE),
    Letter("a", FALSE), Letter("y", FALSE), Letter("l", FALSE), Letter("i", FALSE),
    Letter("s", FALSE), Letter("t", FALSE)>>
ForWorkout ==
    Str(<<"f", "o", "r", " ", "w", "o", "r", "k", "o", "u", "t", ":", " ", "s", "o",
    "n", "g", "3">>)
StartMyWorkout ==
    Str(<<"s", "t", "a", "r", "t", " ", "m", "y", " ", "w", "o", "r", "k", "o", "u",
    "t", " ", "s", "o", "n", "g", "s">>)
ShouldIWatch ==
    <<Letter("s", FALSE), Letter("h", FALSE), Letter("o", FALSE), Letter("u", FALSE),
    Letter("l", FALSE), Letter("d", FALSE), Letter(" ", FALSE), Letter("i", FALSE),
    Letter(" ", FALSE), Letter("w", FALSE), Letter("a", FALSE), Letter("t", FALSE),
    Letter("c", FALSE), Letter("h", FALSE), Letter(" ", FALSE), Letter("m", TRUE),
    Letter("o", FALSE), Letter("v", FALSE), Letter("i", FALSE), Letter("e", FALSE),
    Letter(" ", FALSE), Letter("a", TRUE), Letter(" ", FALSE), Letter("o", FALSE),
    Letter("r", FALSE), Letter(" ", FALSE), Letter("m", TRUE), Letter("o", FALSE),
    Letter("v", FALSE), Letter("i", FALSE), Letter("e", FALSE), Letter(" ", FALSE),
    Letter("b", TRUE), Letter("?", FALSE)>>
Messages == {MyChill, PlayMyChillSongs, PlayMyChill, ForWorkout, StartMyWorkout,
             ShouldIWatch}
ChatTypes == {"private", "group"}

\* What detect_playlist_creation, extract_songs_from_text and detect_playlist_request
\* return for a message, and for each of the messages sent.
Detection(playlist_data, playlist_request) ==
    [playlist_data |-> playlist_data,
     songs |-> IF playlist_data = None THEN <<>>
               ELSE ExtractSongsFromText(playlist_data.songs_text),
     playlist_request |-> playlist_request]
Detections ==
    [message \in Messages |->
        Detection(DetectPlaylistCreation(message), DetectPlaylistRequest(message))]

\* The branch handle_message takes: playlist creation is looked for in a private chat
\* only and needs songs, a playlist request in a group only and needs a name; what
\* is left goes to generate_response, in a group only when the bot is tagged or
\* replied to.
RouteOf(chat_type, tagged, detection) ==
    IF /\ chat_type = "private"
       /\ detection.playlist_data # None
       /\ detection.songs # <<>>
        THEN "create"
    ELSE IF /\ chat_type = "group"
            /\ detection.playlist_request # None
            /\ detection.playlist_request.query # <<>>
        THEN "request"
    ELSE IF chat_type = "private" \/ tagged THEN "generate"
    ELSE "ignore"
Route(chat_type, tagged, message) == RouteOf(chat_type, tagged, Detections[message])

\* The reply to a playlist request: the playlist found is started, or it was not
\* found.
RequestReply(found_playlist, query) ==
    IF found_playlist # None
        THEN [kind |-> "Started", name |-> found_playlist.name,
              items |-> found_playlist.data.songs]
        ELSE [kind |-> "NotFound", name |-> query, items |-> <<>>]

\* What the message is handled as and the reply says: a playlist created with its
\* name and the songs added, a playlist started or not found with the name asked
\* for, an answer of generate_response, or nothing.
ReplyOf(u, route, detection, message) ==
    CASE route = "create" ->
            [kind |-> "Created", name |-> detection.playlist_data.playlist_name,
             items |-> detection.songs]
      [] route = "request" ->
            RequestReply(FindPlaylistByName(GetUserPlaylists(u),
                                            detection.playlist_request.query),
                         detection.playlist_request.query)
      [] route = "generate" -> GenerateReply(message)
      [] route = "ignore" -> [kind |-> "Ignored", name |-> <<>>, items |-> <<>>]
HandleReply(u, chat_type, tagged, message) ==
    ReplyOf(u, Route(chat_type, tagged, message), Detections[message], message)

\* handle_message for a message of user u in chat c, by its branch and its reply.
Handle(c, u, route, reply, detection) ==
    CASE route = "create" -> CreatePlaylist(u, detection.playlist_data)
      [] route = "request" ->
            IF reply.kind = "Started" THEN PlayPlaylistSequentially(c, u, reply.items)
            ELSE h.pc = "idle" /\ UNCHANGED vars
      [] OTHER -> h.pc = "idle" /\ UNCHANGED vars
HandleMessage(c, u, chat_type, tagged, message) ==
    Handle(c, u, Route(chat_type, tagged, message),
           HandleReply(u, chat_type, tagged, message), Detections[message])

MessageNext ==
    \/ \E c \in OneChat, u \in OneUser, chat_type \in ChatTypes, tagged \in BOOLEAN,
          message \in Messages :
            HandleMessage(c, u, chat_type, tagged, message)
    \/ \E ok \in BOOLEAN : StartReturn(ok)
    \/ \E l \in Ids : LoopBegin(l)
    \/ \E l \in Ids : LoopWake(l)
    \/ \E l \in Ids, ok \in BOOLEAN : LoopCompletedReturn(l, ok)
    \/ \E l \in Ids, ok \in BOOLEAN : LoopNextReturn(l, ok)

MessageSpec == Init /\ [][MessageNext]_vars

\* The texts of songs of a letter and commas, up to MaxText characters: some hold a
\* song and some, empty or of short pieces only, hold none.
PlayTexts == UNION {[1..n -> {Letter(ch, FALSE) : ch \in {"a", ","}}] : n \in 0..MaxText}

\* The playlist of one user is created and extended from any of these texts, and
\* played by /play or by a message of a group, once; the other user has none to play.
PlayNext ==
    \/ \E u \in OneUser, text \in PlayTexts :
            CreatePlaylist(u, [playlist_name |-> Chill, songs_text |-> text])
    \/ \E c \in OneChat, u \in Users : NeverStarted(c) /\ PlayCommand(c, u, Chill)
    \/ \E c \in OneChat, u \in Users, message \in Messages :
            NeverStarted(c) /\ HandleMessage(c, u, "group", FALSE, message)
    \/ \E ok \in BOOLEAN : StartReturn(ok)
    \/ \E l \in Ids : LoopBegin(l)
    \/ \E l \in Ids : LoopWake(l)
    \/ \E l \in Ids, ok \in BOOLEAN : LoopCompletedReturn(l, ok)
    \/ \E l \in Ids, ok \in BOOLEAN : LoopNextReturn(l, ok)

PlaySpec == Init /\ [][PlayNext]_vars

\* A cut that makes room at the wrong end: the oldest conversations stay and the
\* latest of the earlier ones goes.
KeepLast_first(list) ==
    IF Len(list) > MemoryLimit
        THEN Append(SubSeq(list, 1, MemoryLimit - 1), list[Len(list)])
        ELSE list

\* self.user_memory[user_id][-10:] when the list has more than 10 conversations.
KeepLast(list) ==
    IF Len(list) > MemoryLimit
        THEN SubSeq(list, Len(list) - MemoryLimit + 1, Len(list))
        ELSE list

\* add_to_memory: the conversation is appended to the list of the user, which is
\* then cut to its last 10.
AddToMemory(u, conversation) ==
    /\ h.pc = "idle"
    /\ user_memory' = [user_memory EXCEPT ![u] = KeepLast(Append(@, conversation))]
    /\ UNCHANGED <<group_music_queue, qs, loop, h, np, term, disturbed, user_playlists>>

\* clear_command: the list of the user becomes empty; the reply is its last
\* statement.
ClearCommand(u) ==
    /\ h.pc = "idle"
    /\ user_memory' = [user_memory EXCEPT ![u] = <<>>]
    /\ UNCHANGED <<group_music_queue, qs, loop, h, np, term, disturbed, user_playlists>>

\* The conversations of a user: the first user sends either of two messages, the
\* other user one.
Conversations(u) ==
    {[user_message |-> m] : m \in IF u \in OneUser THEN {"hi", "bye"} ELSE {"hi"}}

MemoryNext ==
    \/ \E u \in Users : \E conversation \in Conversations(u) :
            AddToMemory(u, conversation)
    \/ \E u \in Users : ClearCommand(u)

MemorySpec == Init /\ [][MemoryNext]_vars

(***************************************************************************)
(* Properties.                                                             *)
(***************************************************************************)

\* The auto_play_sequence tasks of chat c that have not finished.
ActiveLoops(c) ==
    {l \in Ids : loop[l].chat = c /\ loop[l].pc \in {"new", "sleep", "sendNext",
                                                     "sendCompleted"}}

\* queue_data id is in use and stop_command has cleared its auto_play.
Stopped(id) == qs[id].queue # <<>> /\ ~qs[id].auto_play

\* C1: however many playlists are started in a chat, at most one auto_play_sequence
\* is active for the chat at any time (the map itself holds one queue per chat).
C1_OneLoopPerChat == \A c \in Chats : Cardinality(ActiveLoops(c)) <= 1

\* C2: when a start replaces the queue of a chat by a new one, the replaced queue has
\* its auto_play flag off by the time the new one is in the map.
C2_OldRetiredFirst ==
    [][\A c \in Chats :
          (/\ group_music_queue[c] # NoState
           /\ group_music_queue'[c] # NoState
           /\ group_music_queue'[c] # group_music_queue[c])
          => ~qs'[group_music_queue[c]].auto_play]_vars

\* C3: once stop has finalized a queue, no step advances its position or issues a
\* now-playing or closing notification about it.
C3_NothingAfterStop ==
    [][\A id \in Ids :
          Stopped(id) =>
             \/ qs'[id].queue = <<>>
             \/ /\ qs'[id].current_index = qs[id].current_index
                /\ np'[id] = np[id]
                /\ term'[id] = term[id]]_vars

\* C4: every queue in the map has 0 <= current_index < len(queue), at every point
\* where another coroutine can run.
C4_PositionInRange ==
    \A c \in Chats :
        group_music_queue[c] # NoState =>
            /\ 0 <= qs[group_music_queue[c]].current_index
            /\ qs[group_music_queue[c]].current_index
                   < Len(qs[group_music_queue[c]].queue)

\* C5: the number of now-playing notifications issued about a queue (the first one,
\* the auto-next ones, the skipped ones) never exceeds the number of its songs.
C5_AtMostNAnnouncements == \A id \in Ids : np[id] <= Len(qs[id].queue)

\* C5 witness: every song of a queue of two or more has been announced, the queue is
\* still in the map and a loop sleeps on it, so a tick and a skip can both follow.
C5_Witness ==
    \E id \in Ids :
        /\ Len(qs[id].queue) >= 2
        /\ np[id] = Len(qs[id].queue)
        /\ group_music_queue[qs[id].chat] = id
        /\ \E l \in Ids : loop[l].pc = "sleep" /\ loop[l].queue_data = id

\* The notification names position k and the song at position k of queue_data id,
\* where k is the number of announcements made about it so far.
AnnouncesNext(note, id) ==
    /\ note.index = np[id]
    /\ np[id] < Len(qs[id].queue)
    /\ note.song = qs[id].queue[np[id] + 1]
    /\ np'[id] = np[id] + 1

\* C6: the songs announced about a queue, whether by the start, by a tick or by a
\* skip, are queue[0], queue[1], ... in order, each position once: every announcement
\* names the position after the one last announced.
C6_AnnouncedInOrder ==
    [][/\ \A c \in Chats, u \in Users, n \in 1..MaxItems :
             PlayPlaylistSequentially(c, u, Playlist(n)) =>
                 /\ StartReply(Playlist(n)).index = 0
                 /\ StartReply(Playlist(n)).song = qs'[group_music_queue'[c]].queue[1]
                 /\ np'[group_music_queue'[c]] = 1
       /\ \A l \in Ids :
             (LoopWake(l) /\ WakeNote(l).kind = "AutoNext")
                 => AnnouncesNext(WakeNote(l), loop[l].queue_data)
       /\ \A c \in Chats :
             (NextCommand(c) /\ NextReply(c).kind = "Skipped")
                 => AnnouncesNext(NextReply(c), group_music_queue[c])
       /\ \A id \in Ids :
             np'[id] > np[id] =>
                 \/ \E c \in Chats, u \in Users, n \in 1..MaxItems :
                        PlayPlaylistSequentially(c, u, Playlist(n))
                 \/ \E l \in Ids : LoopWake(l)
                 \/ \E c \in Chats : NextCommand(c)]_vars

\* C6 witness: the second song of the only queue ever started was announced by a skip
\* (its own loop has not run yet), and the loop's ticks are still to come.
C6_Witness ==
    \E id \in Ids :
        /\ Allocated = {id}
        /\ np[id] = 2
        /\ qs[id].current_index = 1
        /\ loop[id].pc = "new"

C8_EndToEnd ==
    [][\A c \in Chats :
          ~disturbed'[c] =>
             /\ \A u \in Users, n \in 1..MaxItems :
                   PlayPlaylistSequentially(c, u, Playlist(n)) =>
                       /\ StartReply(Playlist(n)).kind = "NowPlaying"
                       /\ Len(qs'[group_music_queue'[c]].queue) = n
                       /\ StartReply(Playlist(n)).song = qs'[group_music_queue'[c]].queue[1]
             /\ \A l \in Ids :
                   (LoopWake(l) /\ loop[l].chat = c) =>
                       LET id == loop[l].queue_data
                           N == Len(qs[id].queue)
                           k == np[id]
                       IN WakeNote(l) =
                             IF k < N THEN Reply("AutoNext", k, qs[id].queue[k + 1], N)
                             ELSE Reply("Completed", N, 0, N)
             /\ \A l \in Ids :
                   (loop[l].chat = c /\ loop'[l].pc \in {"done", "failed"}) =>
                       /\ group_music_queue'[c] = NoState
                       /\ (QueueReply(c).kind)' = "NoActiveQueue"]_vars

\* C8 witness: in a chat where no other command acted, the tick after the last of two
\* or more announcements has said "completed".
C8_Witness ==
    \E l \in Ids :
        /\ loop[l].pc = "sendCompleted"
        /\ ~disturbed[loop[l].chat]
        /\ Len(qs[loop[l].queue_data].queue) >= 2
        /\ np[loop[l].queue_data] = Len(qs[loop[l].queue_data].queue)
        /\ term[loop[l].queue_data] = 1

\* C9: a tick adds to current_index only of the queue that is in the map for its chat.
C9_IncrementOnlyInstalled ==
    [][\A id \in Ids :
          qs'[id].current_index > qs[id].current_index
              => group_music_queue[qs[id].chat] = id]_vars

\* C10: a queue in the map always has an auto_play_sequence that will tick it (once
\* the start that installed it is over).
C10_NoOrphanQueue ==
    \A c \in Chats :
        (group_music_queue[c] # NoState /\ ~(h.pc = "startSend" /\ h.chat = c))
            => ActiveLoops(c) # {}

\* C11: when a step of auto_play_sequence raises (a reply_text that fails, a del of an
\* entry that is gone), the coroutine ends in its except clause and the chat has no
\* entry in the map when it has ended.
C11_ErrorEndsLoopAndQueue ==
    [][\A l \in Ids :
          /\ (LoopNextReturn(l, FALSE) \/ LoopCompletedReturn(l, FALSE))
                 => loop'[l].pc = "failed"
          /\ (loop[l].pc # "failed" /\ loop'[l].pc = "failed")
                 => group_music_queue'[loop[l].chat] = NoState]_vars

\* C11 witness: a loop has ended in its except clause and its chat has no entry.
C11_Witness ==
    \E l \in Ids :
        /\ loop[l].pc = "failed"
        /\ group_music_queue[loop[l].chat] = NoState

\* C12: stop_command on a chat with an entry turns auto_play of that queue off,
\* removes the entry, and replies played = current_index + 1 and total = len(queue)
\* as they are when it is called.
C12_Stop ==
    [][\A c \in Chats :
          (StopCommand(c) /\ group_music_queue[c] # NoState) =>
              LET qd == group_music_queue[c]
              IN /\ StopReply(c).kind = "Stopped"
                 /\ StopReply(c).played = qs[qd].current_index + 1
                 /\ StopReply(c).total = Len(qs[qd].queue)
                 /\ ~qs'[qd].auto_play
                 /\ group_music_queue'[c] = NoState]_vars

\* C12 witness: a queue that had advanced past its first song has been stopped: its
\* loop still holds it, auto_play is off and the chat has no entry.
C12_Witness ==
    \E id \in Ids :
        /\ Stopped(id)
        /\ qs[id].current_index >= 1
        /\ term[id] = 1
        /\ group_music_queue[qs[id].chat] = NoState

\* C15: play_playlist_sequentially with an empty playlist replies that the playlist
\* is empty and changes nothing: no queue is installed, no loop is created, and a
\* queue that is running in the chat stays in the map.
C15_EmptyStartChangesNothing ==
    [][/\ StartReply(<<>>).kind = "EmptyCollection"
       /\ \A c \in Chats, u \in Users :
             PlayPlaylistSequentially(c, u, <<>>) => UNCHANGED vars]_vars

\* C15 witness: no handler is in flight and a queue is running with its loop asleep,
\* the state in which a start with an empty playlist has to leave that queue alone.
C15_Witness ==
    /\ h.pc = "idle"
    /\ \E c \in Chats :
          /\ group_music_queue[c] # NoState
          /\ qs[group_music_queue[c]].auto_play
          /\ \E l \in Ids : loop[l].pc = "sleep"
                              /\ loop[l].queue_data = group_music_queue[c]

\* What the steps of the tasks and the returns of the handlers are owed: the event
\* loop resumes every coroutine whose sleep is over or whose reply_text has returned
\* or raised.
Fairness ==
    /\ \A l \in Ids :
          WF_vars(\/ LoopBegin(l)
                  \/ LoopWake(l)
                  \/ \E ok \in BOOLEAN : LoopCompletedReturn(l, ok)
                  \/ \E ok \in BOOLEAN : LoopNextReturn(l, ok))
    /\ WF_vars(\E ok \in BOOLEAN : StartReturn(ok))
    /\ WF_vars(\E ok \in BOOLEAN : NextFinishedReturn(ok))

FairSpec == Spec /\ Fairness

\* Every auto_play_sequence that was created reaches its end.
EveryLoopEnds ==
    \A l \in Ids : (loop[l].pc = "new") ~> (loop[l].pc \in {"done", "failed"})

\* A command handler starts.
Command ==
    \/ \E c \in Chats, u \in Users, n \in 0..MaxItems :
            PlayPlaylistSequentially(c, u, Playlist(n))
    \/ \E c \in Chats : NextCommand(c) \/ StopCommand(c) \/ QueueCommand(c)

\* From some time on no command is sent.
FinitelyManyCommands == <>[][~Command]_vars

\* C17: under fair scheduling and finitely many commands, every auto_play_sequence
\* ends and every queue that a start put in the map is removed from the map at some
\* later time.
C17_LoopsEndQueuesRemoved ==
    FinitelyManyCommands =>
        /\ EveryLoopEnds
        /\ \A c \in Chats, id \in Ids :
              (group_music_queue[c] = id) ~> (group_music_queue[c] # id)

\* The queue loop l reads at its next tick was stopped, or another start has put a
\* new queue in its place.
Cancelled(l) ==
    \/ Stopped(loop[l].queue_data)
    \/ /\ group_music_queue[loop[l].chat] # NoState
       /\ group_music_queue[loop[l].chat] # loop[l].queue_data

\* C18: a loop whose queue was stopped or superseded ends at its next tick.
C18_CancelledLoopExits ==
    [][\A l \in Ids :
          (loop[l].pc = "sleep" /\ Cancelled(l) /\ LoopWake(l))
              => loop'[l].pc \in {"done", "failed"}]_vars

\* The songs after position i of queue_data q, in queue order.
Following(q, i) == SubSeq(q.queue, i + 2, Len(q.queue))

SameChat(c) ==
    /\ group_music_queue'[c] = group_music_queue[c]
    /\ group_music_queue[c] # NoState =>
           qs'[group_music_queue[c]] = qs[group_music_queue[c]]
    /\ \A l \in Ids : loop[l].chat = c => loop'[l] = loop[l]

\* The step is one of chat c: a command sent in c, the rest of its handler, or a step
\* of an auto_play_sequence created for c.
StepOf(c) ==
    \/ \E u \in Users, n \in 0..MaxItems : PlayPlaylistSequentially(c, u, Playlist(n))
    \/ NextCommand(c) \/ StopCommand(c) \/ QueueCommand(c)
    \/ h.chat = c /\ \E ok \in BOOLEAN : StartReturn(ok) \/ NextFinishedReturn(ok)
    \/ \E l \in Ids :
          /\ loop[l].chat = c
          /\ \/ LoopBegin(l)
             \/ LoopWake(l)
             \/ \E ok \in BOOLEAN : LoopCompletedReturn(l, ok) \/ LoopNextReturn(l, ok)

\* C19: a start, skip, stop, status or tick in one chat leaves the entry, the
\* queue_data and the tasks of every other chat as they were.
C19_ChatsIndependent ==
    [][\A c \in Chats : StepOf(c) => \A other \in Chats \ {c} : SameChat(other)]_vars

\* C19 witness: both chats have a queue in the map with a loop asleep on it; the one
\* of the first chat has advanced and the one of the second has not.
C19_Witness ==
    /\ group_music_queue[1] # NoState
    /\ group_music_queue[2] # NoState
    /\ qs[group_music_queue[1]].current_index >= 1
    /\ qs[group_music_queue[2]].current_index = 0
    /\ \A c \in Chats :
          \E l \in Ids : loop[l].pc = "sleep" /\ loop[l].queue_data = group_music_queue[c]

\* C13: in a chat with no entry in the map, next_command, stop_command and
\* queue_command reply that no playlist is playing and change nothing: not the map,
\* not a queue of another chat, not a playlist.
C13_NoActiveQueue ==
    /\ [](\A c \in Chats :
            group_music_queue[c] = NoState =>
                /\ NextReply(c).kind = "NoActiveQueue"
                /\ StopReply(c).kind = "NoActiveQueue"
                /\ QueueReply(c).kind = "NoActiveQueue")
    /\ [][\A c \in Chats :
            (/\ group_music_queue[c] = NoState
             /\ NextCommand(c) \/ StopCommand(c) \/ QueueCommand(c))
                => UNCHANGED vars]_vars

\* C13 witness: no handler is in flight, one chat has no entry, the other chat has a
\* queue with its loop asleep, and a playlist is stored.
C13_Witness ==
    /\ h.pc = "idle"
    /\ \E u \in Users : user_playlists[u] # <<>>
    /\ \E c \in Chats, other \in Chats :
          /\ group_music_queue[c] = NoState
          /\ group_music_queue[other] # NoState
          /\ \E l \in Ids : loop[l].pc = "sleep"
                              /\ loop[l].queue_data = group_music_queue[other]

\* C16: the songs of a queue are those its start copied: no step changes the list of
\* a queue in use, and an add_to_playlist leaves what the next tick and the next skip
\* of every queue announce as it was.
C16_QueueItemsFixed ==
    [][/\ \A id \in Ids :
             (qs[id].queue # <<>> /\ qs'[id].queue # <<>>) => qs'[id].queue = qs[id].queue
       /\ \A u \in Users, name \in PlaylistNames, songs \in SongLists :
             AddToPlaylist(u, name, songs) =>
                 /\ \A l \in Ids : loop[l].pc = "sleep" => WakeNote(l)' = WakeNote(l)
                 /\ \A c \in Chats : NextReply(c)' = NextReply(c)]_vars

\* C16 witness: a queue in the map with its loop asleep, and the playlist of its
\* requester has more songs now than the queue has.
C16_Witness ==
    \E c \in Chats, name \in PlaylistNames :
        /\ group_music_queue[c] # NoState
        /\ Len(SongsOf(qs[group_music_queue[c]].requested_by, name))
               > Len(qs[group_music_queue[c]].queue)
        /\ \E l \in Ids : loop[l].pc = "sleep"
                            /\ loop[l].queue_data = group_music_queue[c]

\* Every song of songs equals, letter case ignored, a song of list.
AllPresentIgnoringCase(songs, list) ==
    \A i \in DOMAIN songs : \E j \in DOMAIN list : Lower(list[j]) = Lower(songs[i])

\* C20: an add_to_playlist whose songs are all in the playlist already, letter case
\* ignored, leaves the number of songs of the playlist as it was.
C20_AppendDedupesIgnoringCase ==
    [][\A u \in Users, name \in PlaylistNames, songs \in SongLists :
          (AddToPlaylist(u, name, songs)
           /\ AllPresentIgnoringCase(songs, SongsOf(u, name)))
              => Len(SongsOf(u, name)') = Len(SongsOf(u, name))]_vars

\* No two places of the list hold the same song.
NoDuplicates(list) ==
    \A i \in DOMAIN list, j \in DOMAIN list : list[i] = list[j] => i = j

\* The first place of song in songs.
FirstPlace(song, songs) == CHOOSE i \in DOMAIN songs :
                              songs[i] = song /\ \A j \in 1..(i - 1) : songs[j] # song

\* C21: a playlist never holds the same song twice; an add_to_playlist keeps every
\* song of the playlist at its place, and the songs it adds come after them, each
\* once, in the order in which the call names them first.
C21_AppendOnly ==
    /\ [](\A u \in Users : \A i \in DOMAIN user_playlists[u] :
            NoDuplicates(user_playlists[u][i].songs))
    /\ [][\A u \in Users, name \in PlaylistNames, songs \in SongLists :
            AddToPlaylist(u, name, songs) =>
                LET old == SongsOf(u, name)
                    new == SongsOf(u, name)'
                IN /\ Len(new) >= Len(old)
                   /\ SubSeq(new, 1, Len(old)) = old
                   /\ \A i \in DOMAIN songs : InList(songs[i], new)
                   /\ \A i \in (Len(old) + 1)..Len(new) :
                         /\ InList(new[i], songs)
                         /\ \A j \in (i + 1)..Len(new) :
                               FirstPlace(new[i], songs) < FirstPlace(new[j], songs)]_vars

\* C21 witness: a playlist that holds two songs.
C21_Witness ==
    \E u \in Users, name \in PlaylistNames : Len(SongsOf(u, name)) >= 2

\* C29: about one queue at most one closing notification is ever issued, be it
\* "Playlist Completed", "Playlist Finished" or "Stopped".
C29_OneTerminalNotification == \A id \in Ids : term[id] <= 1

\* The step takes queue id out of the map by a del of its own: stop_command, the del
\* of next_command after its "Playlist Finished", or a step of an auto_play_sequence
\* that holds this queue.
OwnRemoval(c, id) ==
    \/ StopCommand(c)
    \/ h.pc = "nextFinishedSend" /\ h.id = id /\ NextFinishedReturn(TRUE)
    \/ \E l \in Ids :
          /\ loop[l].queue_data = id
          /\ \E ok \in BOOLEAN : LoopCompletedReturn(l, ok) \/ LoopNextReturn(l, ok)

\* C30: the queue a start has put in the map leaves the map only by a stop, by a skip
\* at its last song or by a step of its own loop, never by the cleanup of the loop of
\* a queue that was in the map before it.
C30_RemovedOnlyByOwn ==
    [][\A c \in Chats :
          (group_music_queue[c] # NoState /\ group_music_queue'[c] = NoState)
              => OwnRemoval(c, group_music_queue[c])]_vars

\* C26: a skip or a stop in a chat with a queue has the same effect and the same
\* reply whoever sends it: a step that is the skip (the stop) of one user is the
\* skip (the stop) of every other user too, the requester of the queue or not.
C26_AnyRequester ==
    [][\A c \in Chats, u \in Users, v \in Users :
          group_music_queue[c] # NoState =>
              /\ NextCommandBy(c, u) =>
                     NextCommandBy(c, v) /\ NextReplyTo(c, v) = NextReplyTo(c, u)
              /\ StopCommandBy(c, u) =>
                     StopCommandBy(c, v) /\ StopReplyTo(c, v) = StopReplyTo(c, u)]_vars

\* C26 witness: the queue one of the two users started is in the map and a skip has
\* advanced it (its loop has not run yet).
C26_Witness ==
    \E id \in Ids :
        /\ qs[id].requested_by \in Users
        /\ group_music_queue[qs[id].chat] = id
        /\ loop[id].pc = "new"
        /\ qs[id].current_index >= 1

\* C25: tokenization is idempotent: every song a playlist holds is a token of
\* extract_songs_from_text, and extracting the songs of that token again gives the
\* token itself and nothing else.
C25_TokenizationIdempotent ==
    \A u \in Users : \A i \in DOMAIN user_playlists[u] :
        \A j \in DOMAIN user_playlists[u][i].songs :
            LET song == user_playlists[u][i].songs[j]
            IN ExtractSongsFromText(song) = <<song>>

\* a occurs in b, whatever the case of the letters.
Within(a, b) ==
    \E i \in 0..Len(b), j \in 0..Len(b) : i <= j /\ Lower(SubSeq(b, i + 1, j)) = Lower(a)
Alike(a, b) == Within(a, b) \/ Within(b, a)

\* The places of the playlists of user u whose name is alike the query.
AlikePlaylists(u, query) ==
    {i \in DOMAIN user_playlists[u] : Alike(query, user_playlists[u][i].name)}

\* C23: find_playlist_by_name on the playlists of a user returns the earliest-created
\* playlist whose name contains the query or is contained in it, ignoring case, and
\* None when the user has no playlist or none is alike.
C23_EarliestAlikePlaylist ==
    \A u \in Users, query \in Queries :
        LET found == FindPlaylistByName(GetUserPlaylists(u), query)
            alike == AlikePlaylists(u, query)
        IN IF alike = {} THEN found = None
           ELSE \E i \in alike :
                    /\ \A k \in alike : i <= k
                    /\ found = [name |-> user_playlists[u][i].name,
                                data |-> user_playlists[u][i]]

\* C23 witness: a user with two playlists; a query is alike both, another the later
\* one only, and another neither.
C23_Witness ==
    \E u \in Users :
        /\ \E query \in Queries : AlikePlaylists(u, query) = {1, 2}
        /\ \E query \in Queries : AlikePlaylists(u, query) = {2}
        /\ \E query \in Queries : AlikePlaylists(u, query) = {}

\* The songs of user u alike the query, by the place of the playlist and the place
\* in the playlist.
AlikeSongs(u, query) ==
    UNION {{<<i, j>> : j \in {k \in DOMAIN user_playlists[u][i].songs :
                                Alike(query, user_playlists[u][i].songs[k])}} :
           i \in DOMAIN user_playlists[u]}
Before(p, q) == p[1] < q[1] \/ (p[1] = q[1] /\ p[2] <= q[2])

\* C24: find_song_in_user_playlists returns the first song alike the query, in the
\* order of the user's playlists and of the songs in each, with the name of its
\* playlist; None when the user has no such song, whatever other users have.
C24_FirstAlikeSong ==
    \A u \in Users, query \in Queries :
        LET found == FindSongInUserPlaylists(u, query)
            alike == AlikeSongs(u, query)
        IN IF alike = {} THEN found = None
           ELSE \E p \in alike :
                    /\ \A q \in alike : Before(p, q)
                    /\ found = [song_name |-> user_playlists[u][p[1]].songs[p[2]],
                                playlist_name |-> user_playlists[u][p[1]].name]

\* C24 witness: a user with two playlists of two songs each; a query is alike the
\* second song of each only while another user has a playlist that begins with a
\* song alike it, and a query is alike no song of the user.
C24_Witness ==
    \E u \in Users, v \in Users, query \in Queries :
        /\ u # v
        /\ AlikeSongs(u, query) = {<<1, 2>>, <<2, 2>>}
        /\ <<1, 1>> \in AlikeSongs(v, query)
        /\ \E other \in Queries : AlikeSongs(u, other) = {}

\* The songs and the options of the example messages.
Song1 ==
    Str(<<"s", "o", "n", "g", "1">>)
Song2 ==
    Str(<<"s", "o", "n", "g", "2">>)
Song1Song2 ==
    Str(<<"s", "o", "n", "g", "1", ",", " ", "s", "o", "n", "g", "2">>)
MovieA ==
    <<Letter("m", TRUE), Letter("o", FALSE), Letter("v", FALSE), Letter("i", FALSE),
    Letter("e", FALSE), Letter(" ", FALSE), Letter("a", TRUE)>>
MovieB ==
    <<Letter("m", TRUE), Letter("o", FALSE), Letter("v", FALSE), Letter("i", FALSE),
    Letter("e", FALSE), Letter(" ", FALSE), Letter("b", TRUE)>>

\* C27: "my chill playlist: song1, song2" is a playlist creation with the name
\* "chill" and the songs "song1" and "song2", and no playlist request: the two
\* detections return just that, in a private chat the message is answered as a
\* creation and adds the two songs to the sender's "chill" playlist, and in no chat
\* is it handled as a request or a choice or does it start a queue.
C27_MyChillCreates ==
    /\ [](/\ Detections[MyChill] =
                [playlist_data |-> [playlist_name |-> Chill, songs_text |-> Song1Song2],
                 songs |-> <<Song1, Song2>>,
                 playlist_request |-> None]
          /\ \A u \in OneUser, chat_type \in ChatTypes, tagged \in BOOLEAN :
                LET reply == HandleReply(u, chat_type, tagged, MyChill)
                IN /\ reply.kind \notin {"Started", "NotFound", "Choice"}
                   /\ chat_type = "private" =>
                        reply = [kind |-> "Created", name |-> Chill,
                                 items |-> <<Song1, Song2>>])
    /\ [][\A c \in OneChat, u \in OneUser, chat_type \in ChatTypes, tagged \in BOOLEAN :
            HandleMessage(c, u, chat_type, tagged, MyChill) =>
                /\ group_music_queue' = group_music_queue
                /\ h' = h
                /\ chat_type = "private" =>
                        SongsOf(u, Chill)' = AppendNew(SongsOf(u, Chill), <<Song1, Song2>>)]_vars

\* C27 witness: a user's "chill" playlist with the two songs of the message.
C27_Witness == \E u \in OneUser : SongsOf(u, Chill) = <<Song1, Song2>>

\* C22: a message with the words of a creation and of a request is handled as a
\* creation in every kind of chat: its songs are in the sender's playlist afterwards
\* and no queue is started.
C22_CreationBeforeRequest ==
    [][\A c \in OneChat, u \in OneUser, chat_type \in ChatTypes, tagged \in BOOLEAN,
         message \in Messages :
            (/\ Detections[message].songs # <<>>
             /\ Detections[message].playlist_request # None
             /\ HandleMessage(c, u, chat_type, tagged, message)) =>
                /\ \A i \in DOMAIN Detections[message].songs :
                        InList(Detections[message].songs[i],
                               SongsOf(u, Detections[message].playlist_data.playlist_name)')
                /\ group_music_queue' = group_music_queue
                /\ h' = h]_vars

\* C28: "should i watch Movie A or Movie B?" is answered as a choice between
\* "Movie A" and "Movie B", in that order, and does not go to the language model.
C28_ChoiceDetected ==
    \A u \in OneUser, chat_type \in ChatTypes, tagged \in BOOLEAN :
        (chat_type = "private" \/ tagged) =>
            HandleReply(u, chat_type, tagged, ShouldIWatch) =
                [kind |-> "Choice", name |-> <<>>, items |-> <<MovieA, MovieB>>]

\* A song is well formed: at least 3 characters, no white space at either end, and
\* none of the characters extract_songs_from_text splits by.
WellFormed(song) ==
    /\ Len(song) >= 3
    /\ song[1].ch \notin Whitespace
    /\ song[Len(song)].ch \notin Whitespace
    /\ \A k \in DOMAIN song :
            song[k].ch \notin {"\n", ",", ";", "|", "-", "bullet", "*"}

\* C33: every token of extract_songs_from_text, that is every song a creation
\* message puts in a playlist, is non-empty, has at least 3 characters, has no
\* leading or trailing white space and contains no delimiter character.
C33_TokensWellFormed ==
    \A u \in Users : \A i \in DOMAIN user_playlists[u] :
        \A j \in DOMAIN user_playlists[u][i].songs :
            WellFormed(user_playlists[u][i].songs[j])

\* C33 witness: a token of 3 characters with a space inside, left by a text that
\* had more around it.
C33_Witness ==
    \E u \in Users : \E i \in DOMAIN user_playlists[u] :
        \E j \in DOMAIN user_playlists[u][i].songs :
            LET song == user_playlists[u][i].songs[j]
            IN Len(song) = 3 /\ song[2].ch = " "

\* C32: the list kept about a user never has more than 10 conversations; after
\* add_to_memory it ends in the conversation added, preceded by the latest of the
\* conversations it held, in their order, as many as fit; after /clear it is empty;
\* and neither changes the list of another user.
C32_LastTenInOrder ==
    /\ [](\A u \in Users : Len(user_memory[u]) <= 10)
    /\ [][\A u \in Users :
            /\ \A v \in Users \ {u} :
                    (ClearCommand(u) \/ \E conversation \in Conversations(u) :
                                            AddToMemory(u, conversation))
                        => user_memory'[v] = user_memory[v]
            /\ ClearCommand(u) => user_memory'[u] = <<>>
            /\ \A conversation \in Conversations(u) :
                    AddToMemory(u, conversation) =>
                        LET old == user_memory[u]
                            new == user_memory'[u]
                        IN /\ Len(new) = Min(Len(old) + 1, 10)
                           /\ new[Len(new)] = conversation
                           /\ \A k \in 1..(Len(new) - 1) :
                                    new[Len(new) - k] = old[Len(old) - k + 1]]_vars

\* C32 witness: a user with 10 conversations, not all the same, while the other
\* user has some.
C32_Witness ==
    \E u \in Users, v \in Users :
        /\ u # v
        /\ Len(user_memory[u]) = 10
        /\ user_memory[u][1] # user_memory[u][10]
        /\ user_memory[v] # <<>>

\* The playlist that play_command or a playback request of a group would start for
\* user u has songs, so play_playlist_sequentially does not refuse it as empty.
StartsNonEmpty(found_playlist) ==
    found_playlist # None => StartReply(found_playlist.data.songs).kind = "NowPlaying"

\* C31: every playlist stored has at least one song, so neither /play with the name
\* of a playlist nor a playback request of a message is refused as an empty playlist.
C31_NoEmptyPlaylist ==
    \A u \in Users :
        /\ \A i \in DOMAIN user_playlists[u] : Len(user_playlists[u][i].songs) >= 1
        /\ StartsNonEmpty(FindPlaylistByName(GetUserPlaylists(u), Chill))
        /\ \A message \in Messages :
                Route("group", FALSE, message) = "request" =>
                    StartsNonEmpty(FindPlaylistByName(GetUserPlaylists(u),
                                       Detections[message].playlist_request.query))

\* C31 witness: a playlist extended by a second message has been started, and its
\* queue holds the songs stored.
C31_Witness ==
    \E u \in Users :
        /\ h.pc = "startSend"
        /\ Len(user_playlists[u]) = 1
        /\ Len(user_playlists[u][1].songs) = 2
        /\ qs[h.id].queue = user_playlists[u][1].songs

====
